---- MODULE Spec2Model ----
(***************************************************************************)
(* Markdown-Optimization: the reshape of wide product records into         *)
(* per-stage metric rows (markdown_metrics.compute_stage_metrics and the   *)
(* inline loop of streamlit_app.py) and the reductions of those rows       *)
(* (best_per_product, category_revenue, stage_totals, best_stage).         *)
(*                                                                         *)
(* Arithmetic.  Prices, stock levels and sales are integers.  A markdown   *)
(* fraction m is held as the integer percentage 100*m, so (1 - m) is       *)
(* (100 - Markdown)/100 and every Revenue of the model is the program's    *)
(* revenue times 100 (exact, no rounding).  Sell_through is the exact      *)
(* fraction [num, den]; 0.0 is [num |-> 0, den |-> 1].                     *)
(***************************************************************************)
EXTENDS Integers, Sequences, FiniteSets, TLC

\* Largest number of records of a dataset handed to the program.
MaxRecords == 2

(***************************************************************************)
(* Column names                                                            *)
(***************************************************************************)
\* f"Markdown_{i}"
MarkdownCol(i) ==
    CASE i = 1 -> "Markdown_1" [] i = 2 -> "Markdown_2"
      [] i = 3 -> "Markdown_3" [] i = 4 -> "Markdown_4"

\* f"Sales_After_M{i}"
SalesCol(i) ==
    CASE i = 1 -> "Sales_After_M1" [] i = 2 -> "Sales_After_M2"
      [] i = 3 -> "Sales_After_M3" [] i = 4 -> "Sales_After_M4"

\* f"M{i}"
StageLabel(i) ==
    CASE i = 1 -> "M1" [] i = 2 -> "M2" [] i = 3 -> "M3" [] i = 4 -> "M4"

\* range(1, 5)
StageRange == 1..4

MarkdownCols == {MarkdownCol(i) : i \in StageRange}
SalesCols == {SalesCol(i) : i \in StageRange}
StageCols == MarkdownCols \cup SalesCols
KeyCols == {"Product_ID", "Category", "Season", "Brand", "Product_Name"}
AllCols == KeyCols \cup {"Original_Price", "Stock_Level"} \cup StageCols

(***************************************************************************)
(* Input domain: the records a dataset may hold                            *)
(***************************************************************************)
Categories == {"Apparel", "Footwear"}
Seasons == {"Winter"}
Brands == {"Acme"}
ProductIds == {1, 2}

\* The (markdown percent, sales) pair of stage i in the worked example of the
\* specification: price 100, markdowns 10/20/30/40 percent, sales 10/12/15/8.
ExampleStage(i) ==
    CASE i = 1 -> <<10, 10>> [] i = 2 -> <<20, 12>>
      [] i = 3 -> <<30, 15>> [] i = 4 -> <<40, 8>>

\* A second pair per stage: ties with another stage (stage 1), no markdown
\* (stage 2), a lower revenue (stage 3), a full markdown (stage 4).
AltStage(i) ==
    CASE i = 1 -> <<30, 15>> [] i = 2 -> <<0, 12>>
      [] i = 3 -> <<30, 12>> [] i = 4 -> <<100, 8>>

StageOptions(i) == {ExampleStage(i), AltStage(i)}

WideRecord(pid, cat, stock, s1, s2, s3, s4) ==
    [c \in AllCols |->
        CASE c = "Product_ID" -> pid
          [] c = "Category" -> cat
          [] c = "Season" -> "Winter"
          [] c = "Brand" -> "Acme"
          [] c = "Product_Name" -> "Item"
          [] c = "Original_Price" -> 100
          [] c = "Stock_Level" -> stock
          [] c = "Markdown_1" -> s1[1] [] c = "Sales_After_M1" -> s1[2]
          [] c = "Markdown_2" -> s2[1] [] c = "Sales_After_M2" -> s2[2]
          [] c = "Markdown_3" -> s3[1] [] c = "Sales_After_M3" -> s3[2]
          [] c = "Markdown_4" -> s4[1] [] c = "Sales_After_M4" -> s4[2]]

\* Records of the dashboard's dataset: product and category vary, stages 1
\* and 3 vary (the inline reshape never reads Stock_Level).
AppRecords ==
    {WideRecord(pid, cat, 50, s1, ExampleStage(2), s3, ExampleStage(4)) :
        pid \in ProductIds, cat \in Categories,
        s1 \in StageOptions(1), s3 \in StageOptions(3)}

\* Records of the dashboard's dataset with the stages of the example.
ExampleAppRecords ==
    {WideRecord(pid, cat, 50, ExampleStage(1), ExampleStage(2),
                ExampleStage(3), ExampleStage(4)) :
        pid \in ProductIds, cat \in Categories}

\* Records handed to compute_stage_metrics: stages 1, 2 and 4 vary and the
\* stock level is positive, zero or negative (the function never reads
\* Product_ID).
StockLevels == {-5, 0, 50}

BuilderRecords ==
    {WideRecord(1, "Apparel", stock, s1, s2, ExampleStage(3), s4) :
        stock \in StockLevels,
        s1 \in StageOptions(1), s2 \in StageOptions(2),
        s4 \in StageOptions(4)}

\* The record of the worked example: stock 50.
ExampleRecord ==
    WideRecord(1, "Apparel", 50, ExampleStage(1), ExampleStage(2),
               ExampleStage(3), ExampleStage(4))

SeqsUpTo(S, n) == UNION {[1..k -> S] : k \in 0..n}

\* The columns a loaded CSV may lack: one markdown column, or all of the
\* markdown columns.
MissingChoices == {{c} : c \in MarkdownCols} \cup {MarkdownCols}

Restrict(row, cols) == [c \in cols |-> row[c]]

RECURSIVE SeqMap(_, _)
SeqMap(rows, cols) ==
    IF rows = <<>> THEN <<>>
    ELSE <<Restrict(Head(rows), cols)>> \o SeqMap(Tail(rows), cols)

\* A data frame: its rows are functions from its column names.
Frame(rows, missing) == SeqMap(rows, AllCols \ missing)

\* Datasets of the dashboard: complete frames over every record, and frames
\* over the example records that lack markdown columns.
AppFrames ==
    {Frame(rows, {}) : rows \in SeqsUpTo(AppRecords, MaxRecords)}
    \cup {Frame(rows, missing) :
            rows \in SeqsUpTo(ExampleAppRecords, MaxRecords),
            missing \in MissingChoices}

\* The numeric columns compute_stage_metrics requires.
NumericCols == {"Original_Price", "Stock_Level"} \cup StageCols

\* Frames handed to compute_stage_metrics: complete frames over every record,
\* and frames over the example record that lack one numeric column (the
\* values of a frame that lacks a column are never used: the first row raises).
BuilderFrames ==
    {Frame(rows, {}) : rows \in SeqsUpTo(BuilderRecords, MaxRecords)}
    \cup {Frame(rows, {c}) :
            rows \in SeqsUpTo({ExampleRecord}, MaxRecords), c \in NumericCols}

(***************************************************************************)
(* State                                                                   *)
(***************************************************************************)
VARIABLES
    df,                   \* streamlit_app.py: the loaded dataset
    selected_categories,  \* sidebar multiselects
    selected_seasons,
    selected_brands,
    filtered_df,
    markdown_df,
    best_per_product,
    total_revenue,
    category_revenue,
    stage_totals,
    best_stage,
    revenue_by_stage,
    bound,                \* names of the script that the run has bound
    outcome,              \* how the script run ended
    passed,               \* markdown_metrics.py: the frame the caller passes
    input,                \* the parameter df, as the invocation leaves it
    records,              \* the list records, as the invocation leaves it
    result,               \* the frame the invocation returned
    bpc,                  \* "idle", "returned" or "KeyError"
    repeated              \* history: the last invocation was on the frame
                          \* of the invocation before it

appVars == <<df, selected_categories, selected_seasons, selected_brands,
             filtered_df, markdown_df, best_per_product, total_revenue,
             category_revenue, stage_totals, best_stage, revenue_by_stage,
             bound, outcome>>

builderVars == <<passed, input, records, result, bpc, repeated>>

vars == <<appVars, builderVars>>

(***************************************************************************)
(* streamlit_app.py                                                        *)
(***************************************************************************)
\* df[df.Category.isin(..) & df.Season.isin(..) & df.Brand.isin(..)].copy()
RECURSIVE FilterRows(_, _, _, _)
FilterRows(rows, cats, seas, brs) ==
    IF rows = <<>> THEN <<>>
    ELSE LET r == Head(rows)
             rest == FilterRows(Tail(rows), cats, seas, brs)
         IN IF r["Category"] \in cats /\ r["Season"] \in seas
                /\ r["Brand"] \in brs
            THEN <<r>> \o rest ELSE rest

\* Mutant of InlineRevenue: the sales multiply the undiscounted price.
InlineRevenue_NoDiscount(row, i) ==
    row["Original_Price"] * 100 * row[SalesCol(i)]

\* revenue = row["Original_Price"] * (1 - row[markdown_col]) * row[sales_col]
InlineRevenue(row, i) ==
    row["Original_Price"] * (100 - row[MarkdownCol(i)]) * row[SalesCol(i)]

\* One pass of the inner loop: the row appended for stage i, if any.
InlineStageRows(row, i) ==
    IF MarkdownCol(i) \in DOMAIN row /\ SalesCol(i) \in DOMAIN row
    THEN <<[Product_ID |-> row["Product_ID"],
            Category |-> row["Category"],
            Season |-> row["Season"],
            Brand |-> row["Brand"],
            Stage |-> StageLabel(i),
            Markdown |-> row[MarkdownCol(i)],
            Sales |-> row[SalesCol(i)],
            Revenue |-> InlineRevenue(row, i),
            Original_Price |-> row["Original_Price"]]>>
    ELSE <<>>

\* for i in range(1, 5): ...
InlineRecordRows(row) ==
    InlineStageRows(row, 1) \o InlineStageRows(row, 2)
        \o InlineStageRows(row, 3) \o InlineStageRows(row, 4)

\* for _, row in filtered_df.iterrows(): ... ; pd.DataFrame(markdown_data)
RECURSIVE InlineReshape(_)
InlineReshape(rows) ==
    IF rows = <<>> THEN <<>>
    ELSE InlineRecordRows(Head(rows)) \o InlineReshape(Tail(rows))

\* Positions (index labels) of the rows of a frame that satisfy a key test.
GroupIdx(rows, col, key) == {n \in 1..Len(rows) : rows[n][col] = key}

Keys(rows, col) == {rows[n][col] : n \in 1..Len(rows)}

\* Ascending list of a finite set of integers (groupby sorts its keys).
RECURSIVE SortedInts(_)
SortedInts(S) ==
    IF S = {} THEN <<>>
    ELSE LET lo == CHOOSE x \in S : \A y \in S : x <= y
         IN <<lo>> \o SortedInts(S \ {lo})

\* Mutant of ArgMax: a later position of an equal value replaces the best.
RECURSIVE ArgMax_LastMax(_, _, _)
ArgMax_LastMax(vals, n, best) ==
    IF n > Len(vals) THEN best
    ELSE ArgMax_LastMax(vals, n + 1, IF vals[n] >= vals[best] THEN n ELSE best)

\* numpy argmax, scanning from position n with the best position so far: the
\* first position of the maximum of a non-empty sequence of numbers.
RECURSIVE ArgMax(_, _, _)
ArgMax(vals, n, best) ==
    IF n > Len(vals) THEN best
    ELSE ArgMax(vals, n + 1, IF vals[n] > vals[best] THEN n ELSE best)

\* Mutant of IdxMax: the label of the first row of the group (first(), not
\* idxmax()).
IdxMax_FirstRow(rows, idx) == SortedInts(idx)[1]

\* Series.idxmax of the Revenue of the rows at positions idx (a group keeps
\* the order of the frame): the index label of the first maximum.
IdxMax(rows, idx) ==
    LET labels == SortedInts(idx)
        vals == [k \in 1..Len(labels) |-> rows[labels[k]].Revenue]
    IN labels[ArgMax(vals, 2, 1)]

\* markdown_df.loc[markdown_df.groupby("Product_ID")["Revenue"].idxmax()]
BestPerProduct(rows) ==
    LET pids == SortedInts(Keys(rows, "Product_ID"))
    IN [k \in 1..Len(pids) |->
            rows[IdxMax(rows, GroupIdx(rows, "Product_ID", pids[k]))]]

\* Series.sum() of the Revenue of the rows at positions idx.
RECURSIVE SumRevenue(_, _)
SumRevenue(rows, idx) ==
    IF idx = {} THEN 0
    ELSE LET n == CHOOSE x \in idx : TRUE
         IN rows[n].Revenue + SumRevenue(rows, idx \ {n})

\* best_per_product["Revenue"].sum()
TotalRevenue(best) == SumRevenue(best, 1..Len(best))

\* best_per_product.groupby("Category")["Revenue"].sum()
CategoryRevenue(best) ==
    [c \in Keys(best, "Category") |->
        SumRevenue(best, GroupIdx(best, "Category", c))]

\* markdown_df.groupby("Stage")["Revenue"].sum()
StageTotals(rows) ==
    [s \in Keys(rows, "Stage") |->
        SumRevenue(rows, GroupIdx(rows, "Stage", s))]

\* Mutant of RevenueByStage: the first Revenue of each group, not the sum.
RevenueByStage_First(rows) ==
    [k \in {<<rows[n].Stage, rows[n].Category>> : n \in 1..Len(rows)} |->
        rows[CHOOSE n \in 1..Len(rows) :
                /\ rows[n].Stage = k[1] /\ rows[n].Category = k[2]
                /\ \A m \in 1..(n - 1) :
                      ~(rows[m].Stage = k[1] /\ rows[m].Category = k[2])].Revenue]

\* markdown_df.groupby(["Stage", "Category"])["Revenue"].sum()
RevenueByStage(rows) ==
    [k \in {<<rows[n].Stage, rows[n].Category>> : n \in 1..Len(rows)} |->
        SumRevenue(rows, {n \in 1..Len(rows) :
                            rows[n].Stage = k[1] /\ rows[n].Category = k[2]})]

\* The sorted index of a groupby("Stage"): the labels present, in string order.
SortedStages(S) ==
    LET all == [i \in StageRange |-> StageLabel(i)]
        Present(s) == s \in S
    IN SelectSeq(all, Present)

\* stage_totals.idxmax(): the label, in the sorted index, of the first maximum.
BestStage(totals) ==
    LET labels == SortedStages(DOMAIN totals)
        vals == [k \in 1..Len(labels) |-> totals[labels[k]]]
    IN labels[ArgMax(vals, 2, 1)]

\* Mutant of EmptyGuard: the guard is gone and the script runs on.
EmptyGuard_Removed(fdf) == FALSE

\* if len(filtered_df) == 0: st.warning(...); st.stop()
EmptyGuard(fdf) == Len(fdf) = 0

\* The groupby("Product_ID") of a frame built from no rows (a frame with no
\* columns) raises KeyError.
GroupByRaises(rows) == rows = <<>>

\* One run of the script under a choice of the three sidebar filters.
Run(cats, seas, brs) ==
    LET fdf == FilterRows(df, cats, seas, brs)
        mdf == InlineReshape(fdf)
        best == BestPerProduct(mdf)
    IN /\ outcome # "not_loaded"
       /\ UNCHANGED builderVars
       /\ selected_categories' = cats
       /\ selected_seasons' = seas
       /\ selected_brands' = brs
       /\ filtered_df' = fdf
       /\ df' = df
       /\ IF EmptyGuard(fdf)
          THEN /\ outcome' = "stopped_no_data"
               /\ bound' = {"filtered_df"}
               /\ markdown_df' = <<>>
               /\ best_per_product' = <<>>
               /\ total_revenue' = 0
               /\ category_revenue' = <<>>
               /\ stage_totals' = <<>>
               /\ best_stage' = ""
               /\ revenue_by_stage' = <<>>
          ELSE IF GroupByRaises(mdf)
          THEN /\ outcome' = "KeyError"
               /\ bound' = {"filtered_df", "markdown_df"}
               /\ markdown_df' = mdf
               /\ best_per_product' = <<>>
               /\ total_revenue' = 0
               /\ category_revenue' = <<>>
               /\ stage_totals' = <<>>
               /\ best_stage' = ""
               /\ revenue_by_stage' = <<>>
          ELSE /\ outcome' = "rendered"
               /\ bound' = {"filtered_df", "markdown_df", "best_per_product",
                            "total_revenue", "category_revenue",
                            "stage_totals", "best_stage", "revenue_by_stage"}
               /\ markdown_df' = mdf
               /\ best_per_product' = best
               /\ total_revenue' = TotalRevenue(best)
               /\ category_revenue' = CategoryRevenue(best)
               /\ stage_totals' = StageTotals(mdf)
               /\ best_stage' = BestStage(StageTotals(mdf))
               /\ revenue_by_stage' = RevenueByStage(mdf)

(***************************************************************************)
(* markdown_metrics.py                                                     *)
(***************************************************************************)
\* price_after = row["Original_Price"] * (1 - markdown)
PriceAfter(row, markdown) == row["Original_Price"] * (100 - markdown)

\* revenue = price_after * sales
Revenue(row, markdown, sales) == PriceAfter(row, markdown) * sales

\* Mutant of SellThrough: the guard tests stock != 0 instead of stock > 0.
SellThrough_NonZeroGuard(sales, stock) ==
    IF stock # 0 THEN [num |-> sales, den |-> stock]
    ELSE [num |-> 0, den |-> 1]

\* sell_through = sales / stock if stock > 0 else 0.0
SellThrough(sales, stock) ==
    IF stock > 0 THEN [num |-> sales, den |-> stock]
    ELSE [num |-> 0, den |-> 1]

\* The columns one pass of the inner loop reads for stage i.
ReadCols(i) ==
    {"Stock_Level", MarkdownCol(i), SalesCol(i), "Original_Price",
     "Category", "Season", "Product_Name", "Brand"}

\* Mutant of MetricRow: the sales of every stage are read from the column of
\* stage 1.
MetricRow_Stage1Sales(row, i) ==
    LET stock == row["Stock_Level"]
        markdown == row[MarkdownCol(i)]
        sales == row[SalesCol(1)]
    IN [Category |-> row["Category"],
        Season |-> row["Season"],
        Product_Name |-> row["Product_Name"],
        Brand |-> row["Brand"],
        Stage |-> StageLabel(i),
        Markdown |-> markdown,
        Sales |-> sales,
        Revenue |-> Revenue(row, markdown, sales),
        Sell_through |-> SellThrough(sales, stock)]

\* The dictionary appended for stage i of a row.
MetricRow(row, i) ==
    LET stock == row["Stock_Level"]
        markdown == row[MarkdownCol(i)]
        sales == row[SalesCol(i)]
    IN [Category |-> row["Category"],
        Season |-> row["Season"],
        Product_Name |-> row["Product_Name"],
        Brand |-> row["Brand"],
        Stage |-> StageLabel(i),
        Markdown |-> markdown,
        Sales |-> sales,
        Revenue |-> Revenue(row, markdown, sales),
        Sell_through |-> SellThrough(sales, stock)]

\* Mutant of StageLoop: the stage list ends at M3.
RECURSIVE StageLoop_ThreeStages(_, _, _)
StageLoop_ThreeStages(recs, row, i) ==
    IF i > 3 THEN [raised |-> FALSE, records |-> recs]
    ELSE IF ~(ReadCols(i) \subseteq DOMAIN row)
    THEN [raised |-> TRUE, records |-> recs]
    ELSE StageLoop_ThreeStages(Append(recs, MetricRow(row, i)), row, i + 1)

\* The inner loop from stage i on: [raised, records]. A column the pass
\* reads and the row lacks raises KeyError and ends the invocation.
RECURSIVE StageLoop(_, _, _)
StageLoop(recs, row, i) ==
    IF i > 4 THEN [raised |-> FALSE, records |-> recs]
    ELSE IF ~(ReadCols(i) \subseteq DOMAIN row)
    THEN [raised |-> TRUE, records |-> recs]
    ELSE StageLoop(Append(recs, MetricRow(row, i)), row, i + 1)

\* for _, row in df.iterrows(): ...
RECURSIVE MetricsLoop(_, _)
MetricsLoop(recs, rows) ==
    IF rows = <<>> THEN [raised |-> FALSE, records |-> recs]
    ELSE LET out == StageLoop(recs, Head(rows), 1)
         IN IF out.raised THEN out
            ELSE MetricsLoop(out.records, Tail(rows))

\* Mutant of InitialRecords: the list is shared by the invocations (a module
\* global, or a mutable default argument).
InitialRecords_Shared(left) == left

\* records = []: the list is a fresh local of every invocation, whatever an
\* earlier invocation left.
InitialRecords(left) == <<>>

\* The parameter df after the invocation: the function assigns to no cell,
\* row or column of it.
FrameAfter(frame) == frame

\* compute_stage_metrics(frame)
Invoke(frame) ==
    LET out == MetricsLoop(InitialRecords(records), frame)
    IN /\ bpc # "not_imported"
       /\ repeated' = (bpc # "idle" /\ frame = passed)
       /\ passed' = frame
       /\ input' = FrameAfter(frame)
       /\ records' = out.records
       /\ IF out.raised
          THEN /\ bpc' = "KeyError"
               /\ result' = <<>>
          ELSE /\ bpc' = "returned"
               /\ result' = out.records
       /\ UNCHANGED appVars

\* The caller invokes the function on the frame it holds.
Call == Invoke(passed)

\* The caller's subset changed in the two columns of stage i of record k
\* (of a frame that raises at its first row the values are never used).
CallEdited(k, i, pair) ==
    /\ k \in 1..Len(passed)
    /\ AllCols \subseteq DOMAIN passed[k]
    /\ <<passed[k][MarkdownCol(i)], passed[k][SalesCol(i)]>> # pair
    /\ Invoke([passed EXCEPT ![k] = [@ EXCEPT ![MarkdownCol(i)] = pair[1],
                                              ![SalesCol(i)] = pair[2]]])

\* The caller's subset changed in the stock level of record k.
CallRestocked(k, stock) ==
    /\ k \in 1..Len(passed)
    /\ AllCols \subseteq DOMAIN passed[k]
    /\ passed[k]["Stock_Level"] # stock
    /\ Invoke([passed EXCEPT ![k] = [@ EXCEPT !["Stock_Level"] = stock]])

(***************************************************************************)
(* The reshape loop of streamlit_app.py on the frame of a caller           *)
(***************************************************************************)
\* The columns a pass of the reshape loop reads besides the stage columns.
InlineReadCols ==
    {"Original_Price", "Product_ID", "Category", "Season", "Brand"}

\* A pass whose stage columns are present reads a column the row lacks:
\* KeyError (every row of a frame has the frame's columns).
InlineRaises(rows) ==
    /\ rows # <<>>
    /\ \E i \in StageRange :
          /\ MarkdownCol(i) \in DOMAIN Head(rows)
          /\ SalesCol(i) \in DOMAIN Head(rows)
    /\ ~(InlineReadCols \subseteq DOMAIN Head(rows))

\* Lines 94-114 with the caller's frame as filtered_df.
ReshapeLoop ==
    /\ bpc # "not_imported"
    /\ filtered_df' = passed
    /\ IF InlineRaises(passed)
       THEN /\ outcome' = "KeyError"
            /\ markdown_df' = <<>>
            /\ bound' = {"filtered_df"}
       ELSE /\ outcome' = "reshaped"
            /\ markdown_df' = InlineReshape(passed)
            /\ bound' = {"filtered_df", "markdown_df"}
    /\ UNCHANGED <<df, selected_categories, selected_seasons, selected_brands,
                   best_per_product, total_revenue, category_revenue,
                   stage_totals, best_stage, revenue_by_stage>>
    /\ UNCHANGED builderVars

(***************************************************************************)
(* Specifications                                                          *)
(***************************************************************************)
AppIdle ==
    /\ selected_categories = {}
    /\ selected_seasons = {}
    /\ selected_brands = {}
    /\ filtered_df = <<>>
    /\ markdown_df = <<>>
    /\ best_per_product = <<>>
    /\ total_revenue = 0
    /\ category_revenue = <<>>
    /\ stage_totals = <<>>
    /\ best_stage = ""
    /\ revenue_by_stage = <<>>
    /\ bound = {}

BuilderIdle(pc) ==
    /\ input = passed
    /\ records = <<>>
    /\ result = <<>>
    /\ bpc = pc
    /\ repeated = FALSE

\* The dashboard: load_data() has returned the dataset of the session.
Init ==
    /\ df \in AppFrames
    /\ outcome = "loaded"
    /\ AppIdle
    /\ passed = <<>>
    /\ BuilderIdle("not_imported")

Next ==
    \E cats \in SUBSET Categories, seas \in SUBSET Seasons,
       brs \in SUBSET Brands : Run(cats, seas, brs)

Spec == Init /\ [][Next]_vars

\* A caller of markdown_metrics holding a frame.
InitBuilder ==
    /\ passed \in BuilderFrames
    /\ BuilderIdle("idle")
    /\ df = <<>>
    /\ outcome = "not_loaded"
    /\ AppIdle

NextBuilder ==
    \/ Call
    \/ \E k \in 1..MaxRecords, i \in {1, 2, 4} :
          \E pair \in StageOptions(i) : CallEdited(k, i, pair)
    \/ \E k \in 1..MaxRecords, stock \in StockLevels : CallRestocked(k, stock)

SpecBuilder == InitBuilder /\ [][NextBuilder]_vars

\* A caller that hands one frame to both reshapes.
NextBoth ==
    \/ Call
    \/ ReshapeLoop

SpecBoth == InitBuilder /\ [][NextBoth]_vars

(***************************************************************************)
(* Properties of compute_stage_metrics (checked under SpecBuilder)         *)
(***************************************************************************)
\* Every record of a frame carries every column the function reads.
Complete(frame) ==
    \A k \in 1..Len(frame) : (AllCols \ {"Product_ID"}) \subseteq DOMAIN frame[k]

Invoked == bpc \in {"returned", "KeyError"}

\* Row 4(k-1)+i of a frame of metric rows.
RowOf(res, k, i) == res[4 * (k - 1) + i]

\* C1: on records that carry all required fields the builder returns exactly
\* 4 x |input| rows; rows 4k+1..4k+4 belong to the k-th input record, in
\* input order, with the stage labels M1, M2, M3, M4 in that order (an empty
\* input gives an empty output; no record is skipped or duplicated).
C1_FourRowsPerRecordInOrder ==
    (Invoked /\ Complete(input)) =>
        /\ bpc = "returned"
        /\ Len(result) = 4 * Len(input)
        /\ \A k \in 1..Len(input), i \in StageRange :
              LET row == RowOf(result, k, i)
              IN /\ row.Stage = StageLabel(i)
                 /\ row.Category = input[k]["Category"]
                 /\ row.Season = input[k]["Season"]
                 /\ row.Brand = input[k]["Brand"]
                 /\ row.Product_Name = input[k]["Product_Name"]
                 /\ row.Markdown = input[k][MarkdownCol(i)]
                 /\ row.Sales = input[k][SalesCol(i)]

\* Two different records went in and eight rows came out.
C1_Witness ==
    /\ bpc = "returned"
    /\ Len(input) = 2
    /\ input[1] # input[2]
    /\ Len(result) = 8

\* The three values of a metric row that stage i of a record determines.
RowExact(r, row, i) ==
    /\ row.Markdown = r[MarkdownCol(i)]
    /\ row.Sales = r[SalesCol(i)]
    /\ row.Revenue = r["Original_Price"] * (100 - r[MarkdownCol(i)]) * r[SalesCol(i)]

\* Two records agree on the columns of stage i and on the price.
SameStageColumns(r, q, i) ==
    /\ r[MarkdownCol(i)] = q[MarkdownCol(i)]
    /\ r[SalesCol(i)] = q[SalesCol(i)]
    /\ r["Original_Price"] = q["Original_Price"]

RevenuesOf(res, k) == [i \in StageRange |-> RowOf(res, k, i).Revenue]

\* The revenues of the worked example, times 100.
ExampleRevenues == <<900 * 100, 960 * 100, 1050 * 100, 480 * 100>>

\* C2: every row of record r and stage i has Markdown = r.Markdown_i,
\* Sales = r.Sales_After_Mi and Revenue = Original_Price * (1 - Markdown_i)
\* * Sales_After_Mi, from record r's own stage-i columns only: an invocation
\* on a frame changed in another stage's columns of r, or in another record,
\* returns that row unchanged. The example record gives 900, 960, 1050, 480.
C2_RowFromOwnStageColumns ==
    [][bpc' = "returned" =>
         /\ \A k \in 1..Len(input'), i \in StageRange :
               RowExact(input'[k], RowOf(result', k, i), i)
         /\ \A k \in 1..Len(input') :
               input'[k] = ExampleRecord =>
                   RevenuesOf(result', k) = ExampleRevenues
         /\ (bpc = "returned" /\ Len(input) = Len(input')) =>
               \A k \in 1..Len(input'), i \in StageRange :
                   SameStageColumns(input[k], input'[k], i) =>
                       /\ RowOf(result', k, i).Markdown = RowOf(result, k, i).Markdown
                       /\ RowOf(result', k, i).Sales = RowOf(result, k, i).Sales
                       /\ RowOf(result', k, i).Revenue = RowOf(result, k, i).Revenue]_vars

\* The example record, beside another record, went through the function.
C2_Witness ==
    /\ bpc = "returned"
    /\ Len(input) = 2
    /\ input[1] = ExampleRecord
    /\ input[2] # ExampleRecord
    /\ RevenuesOf(result, 1) = ExampleRevenues

\* C3: Sell_through = Sales_After_Mi / Stock_Level when Stock_Level > 0 and
\* 0.0 when Stock_Level <= 0, whatever the sales; zero or negative stock
\* raises nothing and the record still yields its four rows with their
\* normal Revenue.
C3_SellThroughGuard ==
    (Invoked /\ Complete(input)) =>
        /\ bpc = "returned"
        /\ Len(result) = 4 * Len(input)
        /\ \A k \in 1..Len(input), i \in StageRange :
              LET r == input[k]
                  row == RowOf(result, k, i)
              IN /\ r["Stock_Level"] > 0 =>
                        row.Sell_through =
                            [num |-> r[SalesCol(i)], den |-> r["Stock_Level"]]
                 /\ r["Stock_Level"] <= 0 =>
                        row.Sell_through = [num |-> 0, den |-> 1]
                 /\ row.Revenue =
                        r["Original_Price"] * (100 - r[MarkdownCol(i)])
                            * r[SalesCol(i)]

\* A record of zero stock and a record of negative stock, both with sales,
\* went through the function.
C3_Witness ==
    /\ bpc = "returned"
    /\ Len(input) = 2
    /\ input[1]["Stock_Level"] = 0
    /\ input[2]["Stock_Level"] < 0
    /\ input[2][SalesCol(1)] > 0
    /\ Len(result) = 8

\* What a first invocation returns on a frame.
FirstInvocation(frame) == MetricsLoop(<<>>, frame)

Ran == outcome \in {"stopped_no_data", "KeyError", "rendered"}

\* Every record of the dataset carries the eight stage columns.
AppComplete == \A k \in 1..Len(df) : StageCols \subseteq DOMAIN df[k]

\* The rows of markdown_df of one product.
ProductRows(pid) == GroupIdx(markdown_df, "Product_ID", pid)

\* Position of a stage label in the canonical order M1 < M2 < M3 < M4.
StageNo(s) == CHOOSE i \in StageRange : StageLabel(i) = s

\* A record with the price, markdowns and sales of the worked example.
IsExample(r) ==
    /\ StageCols \subseteq DOMAIN r
    /\ r["Original_Price"] = 100
    /\ \A i \in StageRange : <<r[MarkdownCol(i)], r[SalesCol(i)]>> = ExampleStage(i)

Reverse(seq) == [k \in 1..Len(seq) |-> seq[Len(seq) + 1 - k]]

RECURSIVE SumOver(_, _)
SumOver(f, S) ==
    IF S = {} THEN 0
    ELSE LET x == CHOOSE y \in S : TRUE IN f[x] + SumOver(f, S \ {x})

\* The inline reshape loop on records that carry the eight stage columns:
\* four rows per filtered record, in record order, stages M1..M4 in order.
InlineFourRowsPerRecord ==
    (Ran /\ filtered_df # <<>> /\ AppComplete) =>
        /\ Len(markdown_df) = 4 * Len(filtered_df)
        /\ \A k \in 1..Len(filtered_df), i \in StageRange :
              LET row == markdown_df[4 * (k - 1) + i]
              IN /\ row.Stage = StageLabel(i)
                 /\ row.Product_ID = filtered_df[k]["Product_ID"]
                 /\ row.Category = filtered_df[k]["Category"]
                 /\ row.Markdown = filtered_df[k][MarkdownCol(i)]
                 /\ row.Sales = filtered_df[k][SalesCol(i)]

\* C4: for every non-empty filtered record set (of records that carry the
\* stage columns, and for every run that reaches the selection) the
\* best-per-product selection returns exactly one row per distinct
\* Product_ID of the input; that row is
\* one of the StageMetric rows of that product's group and its Revenue is at
\* least the Revenue of every row of the group. For the single-product
\* example the selected row is stage M3 with revenue 1050.
C4_OneBestRowPerProduct ==
    /\ (Ran /\ filtered_df # <<>> /\ AppComplete) => outcome = "rendered"
    /\ outcome = "rendered" =>
         /\ Len(best_per_product) = Cardinality(Keys(filtered_df, "Product_ID"))
         /\ \A pid \in Keys(filtered_df, "Product_ID") :
               Cardinality({k \in 1..Len(best_per_product) :
                               best_per_product[k].Product_ID = pid}) = 1
         /\ \A k \in 1..Len(best_per_product) :
               LET b == best_per_product[k]
               IN /\ \E n \in ProductRows(b.Product_ID) : markdown_df[n] = b
                  /\ \A n \in ProductRows(b.Product_ID) :
                        markdown_df[n].Revenue <= b.Revenue
         /\ (Len(filtered_df) = 1 /\ IsExample(filtered_df[1])) =>
               /\ best_per_product[1].Stage = "M3"
               /\ best_per_product[1].Revenue = 1050 * 100

\* Two products with different best stages were selected from eight rows.
C4_Witness ==
    /\ outcome = "rendered"
    /\ Len(markdown_df) = 8
    /\ Len(best_per_product) = 2
    /\ best_per_product[1].Stage # best_per_product[2].Stage
    /\ best_per_product[1].Revenue # best_per_product[2].Revenue

\* The stage selected for each product.
SelectedStages(best) ==
    [k \in 1..Len(best) |-> <<best[k].Product_ID, best[k].Stage>>]

\* C5: whenever two or more rows of a Product_ID group (also a group formed
\* by several input records) attain the maximal Revenue, the selected row is
\* the one of the earliest stage in the order M1 < M2 < M3 < M4, and the
\* result does not depend on the order of the input records.
C5_EarliestStageOnTies ==
    outcome = "rendered" =>
        /\ \A k \in 1..Len(best_per_product) :
              LET b == best_per_product[k]
              IN \A n \in ProductRows(b.Product_ID) :
                    markdown_df[n].Revenue = b.Revenue =>
                        StageNo(b.Stage) <= StageNo(markdown_df[n].Stage)
        /\ SelectedStages(best_per_product) =
              SelectedStages(BestPerProduct(InlineReshape(Reverse(filtered_df))))

\* The Product_IDs of the filtered records are pairwise different.
UniqueProductIds ==
    \A j, k \in 1..Len(filtered_df) :
        filtered_df[j]["Product_ID"] = filtered_df[k]["Product_ID"] => j = k

\* What does hold of the tie-break: with one record per Product_ID the first
\* maximum in row order is the earliest stage.
TieBreakWithUniqueProductIds ==
    (outcome = "rendered" /\ UniqueProductIds) =>
        \A k \in 1..Len(best_per_product) :
            LET b == best_per_product[k]
            IN \A n \in ProductRows(b.Product_ID) :
                  markdown_df[n].Revenue = b.Revenue =>
                      StageNo(b.Stage) <= StageNo(markdown_df[n].Stage)

\* The names a run binds only after the selection of the best rows.
SelectionNames ==
    {"best_per_product", "total_revenue", "category_revenue", "stage_totals",
     "best_stage", "revenue_by_stage"}

C6_WitnessEmptyReshape ==
    /\ outcome = "KeyError"
    /\ filtered_df # <<>>
    /\ markdown_df = <<>>

\* C7: when a required field of a record is absent the builder fails with a
\* schema error and returns no StageMetric rows; it never silently drops a
\* stage row or skips the record.
C7_SchemaErrorOnAbsentField ==
    (Ran /\ filtered_df # <<>> /\ ~AppComplete) =>
        /\ outcome = "KeyError"
        /\ markdown_df = <<>>

\* The same statement of compute_stage_metrics (under SpecBuilder), which
\* does raise on an absent column.
BuilderRaisesOnAbsentField ==
    (Invoked /\ input # <<>> /\ ~Complete(input)) =>
        (bpc = "KeyError" /\ result = <<>>)

\* The best row of each selected product.
BestRevenueOf ==
    [pid \in Keys(best_per_product, "Product_ID") |->
        best_per_product[CHOOSE k \in 1..Len(best_per_product) :
                            best_per_product[k].Product_ID = pid].Revenue]

BestCategoryOf ==
    [pid \in Keys(best_per_product, "Product_ID") |->
        best_per_product[CHOOSE k \in 1..Len(best_per_product) :
                            best_per_product[k].Product_ID = pid].Category]

\* C8: (a) for each stage the sum over the categories of the (Stage,
\* Category) Revenue sums equals the Stage Revenue sum; (b) for each
\* category the Category sum of best_per_product Revenue equals the sum of
\* the best-row revenues of the products of that category, and the category
\* totals add up to the total revenue KPI.
C8_SumsAgreeAcrossGranularities ==
    outcome = "rendered" =>
        /\ DOMAIN stage_totals = {k[1] : k \in DOMAIN revenue_by_stage}
        /\ \A s \in DOMAIN stage_totals :
              SumOver(revenue_by_stage,
                      {k \in DOMAIN revenue_by_stage : k[1] = s})
                  = stage_totals[s]
        /\ \A c \in DOMAIN category_revenue :
              category_revenue[c] =
                  SumOver(BestRevenueOf,
                          {pid \in DOMAIN BestRevenueOf : BestCategoryOf[pid] = c})
        /\ SumOver(category_revenue, DOMAIN category_revenue) = total_revenue

\* Two products of two categories, and a stage whose total is made of both.
C8_Witness ==
    /\ outcome = "rendered"
    /\ Len(best_per_product) = 2
    /\ Cardinality(DOMAIN category_revenue) = 2
    /\ Cardinality(DOMAIN revenue_by_stage) = 8
    /\ total_revenue > 0

\* C10: the best overall stage has a total Revenue at least that of every
\* other stage; of several equal maximal totals the earliest stage in the
\* order M1 < M2 < M3 < M4 is reported, whatever the order of the records.
C10_BestStageIsEarliestMaximum ==
    outcome = "rendered" =>
        /\ best_stage \in DOMAIN stage_totals
        /\ \A t \in DOMAIN stage_totals :
              /\ stage_totals[t] =
                    SumRevenue(markdown_df, GroupIdx(markdown_df, "Stage", t))
              /\ stage_totals[t] <= stage_totals[best_stage]
              /\ stage_totals[t] = stage_totals[best_stage] =>
                    StageNo(best_stage) <= StageNo(t)
        /\ best_stage =
              BestStage(StageTotals(InlineReshape(Reverse(filtered_df))))

\* Two stage totals over two records are equal and maximal.
C10_Witness ==
    /\ outcome = "rendered"
    /\ Len(filtered_df) = 2
    /\ \E t \in DOMAIN stage_totals :
          t # best_stage /\ stage_totals[t] = stage_totals[best_stage]

(***************************************************************************)
(* The two reshapes on one frame (checked under SpecBoth)                  *)
(***************************************************************************)
BothRan ==
    /\ bpc \in {"returned", "KeyError"}
    /\ outcome \in {"reshaped", "KeyError"}

\* Every record carries the eight stage columns.
HasStageCols(frame) ==
    \A k \in 1..Len(frame) : StageCols \subseteq DOMAIN frame[k]

\* Every record carries every column either reshape reads.
HasAllReadCols(frame) ==
    \A k \in 1..Len(frame) : AllCols \subseteq DOMAIN frame[k]

\* The n-th rows agree on the fields the two reshapes share.
RowsAgree ==
    /\ Len(markdown_df) = Len(result)
    /\ \A n \in 1..Len(result) :
          /\ markdown_df[n].Category = result[n].Category
          /\ markdown_df[n].Season = result[n].Season
          /\ markdown_df[n].Brand = result[n].Brand
          /\ markdown_df[n].Stage = result[n].Stage
          /\ markdown_df[n].Markdown = result[n].Markdown
          /\ markdown_df[n].Sales = result[n].Sales
          /\ markdown_df[n].Revenue = result[n].Revenue

\* C11 as stated: for every record sequence in which every record carries
\* all eight stage columns, the inline reshape loop and
\* compute_stage_metrics produce row sequences of the same length whose n-th
\* rows have equal Category, Season, Brand, Stage, Markdown, Sales and
\* Revenue.
C11_AgreeOnStageColumns ==
    (BothRan /\ HasStageCols(passed)) =>
        /\ (bpc = "KeyError") = (outcome = "KeyError")
        /\ RowsAgree

\* C11 as amended: the same for every record sequence in which every record
\* carries the eight stage columns and the other columns the two reshapes
\* read (Original_Price, Stock_Level, Product_ID, Product_Name, Category,
\* Season, Brand): both return, with rows that agree.
C11_AgreeOnAllReadColumns ==
    (BothRan /\ HasAllReadCols(passed)) =>
        /\ bpc = "returned"
        /\ outcome = "reshaped"
        /\ Len(result) = 4 * Len(passed)
        /\ RowsAgree

\* Both reshapes returned eight rows for a frame of two different records.
C11_Witness ==
    /\ bpc = "returned"
    /\ outcome = "reshaped"
    /\ Len(passed) = 2
    /\ passed[1] # passed[2]
    /\ Len(result) = 8
    /\ Len(markdown_df) = 8

====
